---- MODULE Spec2Model ----
(***************************************************************************)
(* Model of the MT4 report pipeline (services/tradeProcessor.ts):          *)
(* processReport locates the "Closed Transactions:" table, reads its rows  *)
(* into trade records and hands them to classifyAndGroupTrades, which      *)
(* classifies by profit, deduplicates winners through winnersMap, groups   *)
(* by item and sorts every bucket by true open time.                       *)
(***************************************************************************)
EXTENDS Integers, Sequences, FiniteSets, TLC

(***************************************************************************)
(* Bounds of the model.                                                    *)
(***************************************************************************)
\* longest trade list handed directly to classifyAndGroupTrades
MaxTrades == 2
\* longest markup: table start tags plus rows
MaxLen == 5

(***************************************************************************)
(* JavaScript numbers: an integer value or NaN.  Every comparison with NaN *)
(* is false, as in IEEE 754.                                               *)
(***************************************************************************)
NaN == [nan |-> TRUE, v |-> 0]
Num(n) == [nan |-> FALSE, v |-> n]
isNaN(x) == x.nan
GT(a, b) == ~a.nan /\ ~b.nan /\ a.v > b.v
GE(a, b) == ~a.nan /\ ~b.nan /\ a.v >= b.v
LE(a, b) == ~a.nan /\ ~b.nan /\ a.v <= b.v
LT(a, b) == ~a.nan /\ ~b.nan /\ a.v < b.v
Neg(a) == IF a.nan THEN NaN ELSE Num(0 - a.v)
Minus(a, b) == IF a.nan \/ b.nan THEN NaN ELSE Num(a.v - b.v)

(***************************************************************************)
(* Text.  Cell texts are drawn from a fixed vocabulary; the string         *)
(* functions the code applies are given by their value on each word.       *)
(***************************************************************************)
OpenA == "2025.06.25 16:09:01"
OpenB == "2025.06.25 02:30:00"
OpenNaN == "25 June"
OpenEmpty == ""
CloseA == "2025.06.25 18:00:00"

\* String.prototype.trim
Trim(s) ==
  CASE s = " Closed Transactions: " -> "Closed Transactions:"
    [] s = " 1001 " -> "1001"
    [] OTHER -> s

\* String.prototype.includes(needle)
Includes(s, needle) ==
  CASE needle = "Closed Transactions:" ->
         s \in {"Closed Transactions:", " Closed Transactions: ", "see Closed Transactions: below"}
    [] needle = "Open Trades:" -> s \in {"Open Trades:"}
    [] needle = "Closed P/L:" -> s \in {"Closed P/L:", "7 Closed P/L:"}
    [] OTHER -> s = needle

\* String.prototype.replace(/ /g, '')
StripSpaces(s) ==
  CASE s = "1 250" -> "1250"
    [] s = " 1001 " -> "1001"
    [] s = " Closed Transactions: " -> "ClosedTransactions:"
    [] OTHER -> s

\* String.prototype.toLowerCase
toLowerCase(s) ==
  CASE s = "EURUSD" -> "eurusd"
    [] s = "GBPUSD" -> "gbpusd"
    [] OTHER -> s

\* parseFloat: the longest numeric prefix after leading white space, else NaN
parseFloat(s) ==
  CASE s \in {"1001", " 1001 "} -> Num(1001)
    [] s = "1002" -> Num(1002)
    [] s = "7 Closed P/L:" -> Num(7)
    [] s = "0" -> Num(0)
    [] s \in {"1", "1 250"} -> Num(1)
    [] s = "2" -> Num(2)
    [] s = "50" -> Num(50)
    [] s = "1250" -> Num(1250)
    [] s = "-30" -> Num(-30)
    [] OTHER -> NaN

\* x || dflt on a string: the empty string is falsy
OrElse(s, dflt) == IF s = "" THEN dflt ELSE s

(***************************************************************************)
(* Dates.  An instant is its count of seconds since the epoch (the report  *)
(* carries no milliseconds), or NaN for an Invalid Date.                   *)
(***************************************************************************)
MT4_UTC_OFFSET == 3

\* the characters of a text of the vocabulary
Chars(s) ==
  CASE s = OpenA ->
         <<"2", "0", "2", "5", ".", "0", "6", ".", "2", "5", " ",
           "1", "6", ":", "0", "9", ":", "0", "1">>
    [] s = OpenB ->
         <<"2", "0", "2", "5", ".", "0", "6", ".", "2", "5", " ",
           "0", "2", ":", "3", "0", ":", "0", "0">>
    [] s = CloseA ->
         <<"2", "0", "2", "5", ".", "0", "6", ".", "2", "5", " ",
           "1", "8", ":", "0", "0", ":", "0", "0">>
    [] s = OpenNaN -> <<"2", "5", " ", "J", "u", "n", "e">>
    [] s = OpenEmpty -> <<>>
    [] OTHER -> <<"?">>

DigitChars == <<"0", "1", "2", "3", "4", "5", "6", "7", "8", "9">>

\* the value of a decimal digit character
DigitValue(c) == (CHOOSE k \in 1..10 : DigitChars[k] = c) - 1

IsDigit(c) == \E k \in 1..10 : DigitChars[k] = c

\* String.prototype.split(separator) of a text given by its characters; cur is
\* the piece being read
RECURSIVE split(_, _, _, _)
split(chars, separator, cur, acc) ==
  IF chars = <<>> THEN Append(acc, cur)
  ELSE IF Head(chars) = separator THEN split(Tail(chars), separator, <<>>, Append(acc, cur))
  ELSE split(Tail(chars), separator, Append(cur, Head(chars)), acc)

\* Number(text) of a text without white space: 0 for the empty text, the
\* value of a run of decimal digits, NaN for a text with any other character
RECURSIVE DecimalValue(_, _)
DecimalValue(chars, acc) ==
  IF chars = <<>> THEN acc ELSE DecimalValue(Tail(chars), 10 * acc + DigitValue(Head(chars)))

Number(chars) ==
  IF \A k \in 1..Len(chars) : IsDigit(chars[k]) THEN Num(DecimalValue(chars, 0)) ELSE NaN

\* dateStr.split(' '), then split('.') / split(':') and map(Number) of the
\* first two parts.  parts is the number of space-separated parts.  dateStr
\* is given by its characters.
SplitDate(dateStr) ==
  LET p == split(dateStr, " ", <<>>, <<>>)
      datePart == split(p[1], ".", <<>>, <<>>)
      timePart == IF Len(p) >= 2 THEN split(p[2], ":", <<>>, <<>>) ELSE <<>>
  IN  [parts |-> Len(p),
       ymd |-> [k \in 1..Len(datePart) |-> Number(datePart[k])],
       hms |-> [k \in 1..Len(timePart) |-> Number(timePart[k])]]

\* array destructuring: a missing element is undefined, a NaN to Date.UTC
Elem(a, i) == IF i <= Len(a) THEN a[i] ELSE NaN

\* days from 1970-01-01 to the first day of month index mIdx (0-based, any
\* integer) of year y, in the proleptic Gregorian calendar
DaysToMonth(y, mIdx) ==
  LET yy == y + (mIdx \div 12)
      m == (mIdx % 12) + 1
      ya == IF m <= 2 THEN yy - 1 ELSE yy
      era == ya \div 400
      yoe == ya - era * 400
      mp == IF m > 2 THEN m - 3 ELSE m + 9
      doy == (153 * mp + 2) \div 5
      doe == yoe * 365 + (yoe \div 4) - (yoe \div 100) + doy
  IN  era * 146097 + doe - 719468

\* Date.UTC(year, monthIndex, day, hours, minutes, seconds)
DateUTC(year, monthIndex, day, hours, minutes, seconds) ==
  IF year.nan \/ monthIndex.nan \/ day.nan \/ hours.nan \/ minutes.nan \/ seconds.nan
  THEN NaN
  ELSE LET y == IF 0 <= year.v /\ year.v <= 99 THEN 1900 + year.v ELSE year.v
       IN  Num((DaysToMonth(y, monthIndex.v) + day.v - 1) * 86400
               + hours.v * 3600 + minutes.v * 60 + seconds.v)

getUTCHours(t) == IF t.nan THEN NaN ELSE Num((t.v \div 3600) % 24)

\* setUTCHours that keeps the day: the hour wraps within 0..23
setUTCHours_sameDay(t, h) ==
  IF t.nan \/ h.nan THEN NaN ELSE Num(t.v - ((t.v \div 3600) % 24) * 3600 + (h.v % 24) * 3600)

\* Date.prototype.setUTCHours(h): replaces the hour field, carrying into the day
setUTCHours(t, h) ==
  IF t.nan \/ h.nan THEN NaN ELSE Num(t.v - ((t.v \div 3600) % 24) * 3600 + h.v * 3600)

\* parseMT4DateToUTC: [throws, time]; throws when the string has no second
\* part (timePart is undefined and timePart.split raises a TypeError)
parseMT4DateToUTC(dateStr) ==
  LET sp == SplitDate(dateStr)
  IN  IF sp.parts < 2
      THEN [throws |-> TRUE, time |-> NaN]
      ELSE LET date == DateUTC(Elem(sp.ymd, 1), Minus(Elem(sp.ymd, 2), Num(1)), Elem(sp.ymd, 3),
                               Elem(sp.hms, 1), Elem(sp.hms, 2), Elem(sp.hms, 3))
           IN  [throws |-> FALSE,
                time |-> setUTCHours(date, Minus(getUTCHours(date), Num(MT4_UTC_OFFSET)))]

\* the texts a time field of a trade record takes
TimeTexts == {OpenA, OpenB, OpenNaN, OpenEmpty, CloseA}

\* parseMT4DateToUTC of each of these texts
parseMT4DateToUTCOf == [text \in TimeTexts |-> parseMT4DateToUTC(Chars(text))]

TV_UTC_OFFSET == -6

TV_DISPLAY_CORRECTION_HOURS == 2

\* the calendar date of a day count since 1970-01-01 (proleptic Gregorian),
\* month 1-based
CivilFromDays(days) ==
  LET z == days + 719468
      era == z \div 146097
      doe == z - era * 146097
      yoe == (doe - (doe \div 1460) + (doe \div 36524) - (doe \div 146096)) \div 365
      doy == doe - (365 * yoe + (yoe \div 4) - (yoe \div 100))
      mp == (5 * doy + 2) \div 153
      m == IF mp < 10 THEN mp + 3 ELSE mp - 9
  IN  [year |-> yoe + era * 400 + (IF m <= 2 THEN 1 ELSE 0),
       month |-> m,
       day |-> doy - ((153 * mp + 2) \div 5) + 1]

getUTCFullYear(t) == IF t.nan THEN NaN ELSE Num(CivilFromDays(t.v \div 86400).year)

\* 0-based
getUTCMonth(t) == IF t.nan THEN NaN ELSE Num(CivilFromDays(t.v \div 86400).month - 1)

getUTCDate(t) == IF t.nan THEN NaN ELSE Num(CivilFromDays(t.v \div 86400).day)

getUTCMinutes(t) == IF t.nan THEN NaN ELSE Num((t.v \div 60) % 60)

\* x + y of two numbers
Plus(a, b) == IF a.nan \/ b.nan THEN NaN ELSE Num(a.v + b.v)

\* convertToPineScriptTimestamp: the fields of the copy moved by the chart
\* offset and the display correction
convertToPineScriptTimestamp(trueUtcDate) ==
  LET totalOffset == TV_UTC_OFFSET + TV_DISPLAY_CORRECTION_HOURS
      adjustedDate == setUTCHours(trueUtcDate, Plus(getUTCHours(trueUtcDate), Num(totalOffset)))
  IN  [year |-> getUTCFullYear(adjustedDate),
       month |-> Plus(getUTCMonth(adjustedDate), Num(1)),
       day |-> getUTCDate(adjustedDate),
       hours |-> getUTCHours(adjustedDate),
       minutes |-> getUTCMinutes(adjustedDate)]

(***************************************************************************)
(* classifyAndGroupTrades.  A bucket holds references to the trade objects *)
(* of allTrades, written as their positions in allTrades.  grouped is the  *)
(* object keyed by item; winnersMap is the Map in insertion order.         *)
(***************************************************************************)
EmptyGroup == [winners |-> <<>>, breakeven |-> <<>>, losers |-> <<>>]
NoGroups == [k \in {} |-> EmptyGroup]

\* `${trade.openTimeRaw}_${trade.openPrice}`: a number's text has no "_", so the
\* template is one-to-one on the pair, and NaN prints as the one text "NaN"
dedupKey(trade) == <<trade.openTimeRaw, trade.openPrice>>

\* winnersMap.get(key): the position of the entry, 0 for undefined
MapGet(m, key) ==
  IF \E j \in 1..Len(m) : m[j].key = key
  THEN CHOOSE j \in 1..Len(m) : m[j].key = key
  ELSE 0

\* MapSet with the lookup lost: every set adds an entry
MapSet_alwaysAppend(m, key, ref) == Append(m, [key |-> key, value |-> ref])

\* winnersMap.set(key, ref): a new key is appended, an existing key keeps its place
MapSet(m, key, ref) ==
  LET j == MapGet(m, key)
  IN  IF j = 0 THEN Append(m, [key |-> key, value |-> ref])
      ELSE [m EXCEPT ![j].value = ref]

\* profit > beTolerance
isWinnerCandidate(trade, tol) == GT(trade.profit, tol)

\* profit >= -beTolerance && profit <= beTolerance
isBreakeven(trade, tol) == GE(trade.profit, Neg(tol)) /\ LE(trade.profit, tol)

\* replacesWinner with >= for >: among equal profits the last one stays
replacesWinner_orEqual(trades, j, m, trade) ==
  j = 0 \/ GE(trade.profit, trades[m[j].value].profit)

\* !existingWinner || trade.profit > existingWinner.profit
replacesWinner(trades, j, m, trade) ==
  j = 0 \/ GT(trade.profit, trades[m[j].value].profit)

\* one iteration of the first pass over trade number i
classifyTrade(st, trades, tol, i) ==
  LET trade == trades[i]
      g == IF trade.item \in DOMAIN st.grouped THEN st.grouped
           ELSE st.grouped @@ (trade.item :> EmptyGroup)
  IN  IF isWinnerCandidate(trade, tol)
      THEN LET key == dedupKey(trade)
               j == MapGet(st.winnersMap, key)
           IN  [grouped |-> g,
                winnersMap |-> IF replacesWinner(trades, j, st.winnersMap, trade)
                               THEN MapSet(st.winnersMap, key, i)
                               ELSE st.winnersMap]
      ELSE IF isBreakeven(trade, tol)
      THEN [grouped |-> [g EXCEPT ![trade.item].breakeven = Append(@, i)],
            winnersMap |-> st.winnersMap]
      ELSE [grouped |-> [g EXCEPT ![trade.item].losers = Append(@, i)],
            winnersMap |-> st.winnersMap]

RECURSIVE firstPass(_, _, _, _)
firstPass(st, trades, tol, i) ==
  IF i > Len(trades) THEN st
  ELSE firstPass(classifyTrade(st, trades, tol, i), trades, tol, i + 1)

\* secondPass pushing every surviving winner to the winners of every group
RECURSIVE secondPass_everyGroup(_, _, _, _)
secondPass_everyGroup(g, m, trades, j) ==
  IF j > Len(m) THEN g
  ELSE secondPass_everyGroup([k \in DOMAIN g |->
                                [g[k] EXCEPT !.winners = Append(@, m[j].value)]],
                             m, trades, j + 1)

\* the second pass: every surviving winner is pushed to its own item's winners
RECURSIVE secondPass(_, _, _, _)
secondPass(g, m, trades, j) ==
  IF j > Len(m) THEN g
  ELSE secondPass([g EXCEPT ![trades[m[j].value].item].winners = Append(@, m[j].value)],
                  m, trades, j + 1)

\* the true open time of every trade, as the comparator parses it
RECURSIVE openTimesFrom(_, _)
openTimesFrom(trades, i) ==
  IF i > Len(trades) THEN <<>>
  ELSE <<parseMT4DateToUTCOf[trades[i].openTimeRaw]>> \o openTimesFrom(trades, i + 1)

openTimes(trades) == openTimesFrom(trades, 1)

\* the comparator (a, b) => getTime(a) - getTime(b); sort reads a NaN result as +0
compareOpenTime(times, a, b) ==
  LET d == Minus(times[a].time, times[b].time)
  IN  IF d.nan THEN 0 ELSE d.v

\* the comparator throws on some element of a bucket it is called on
sortThrows(times, bucket) ==
  Len(bucket) >= 2 /\ \E k \in 1..Len(bucket) : times[bucket[k]].throws

\* ECMAScript's "consistent comparator" on the elements of the bucket
consistentComparator(times, bucket) ==
  LET E == {bucket[k] : k \in 1..Len(bucket)}
      c == [a \in E, b \in E |-> compareOpenTime(times, a, b)]
  IN  \A a, b, x \in E :
        /\ (c[a, b] = 0 /\ c[b, x] = 0) => c[a, x] = 0
        /\ (c[a, b] < 0 /\ c[b, x] < 0) => c[a, x] < 0
        /\ (c[a, b] > 0 /\ c[b, x] > 0) => c[a, x] > 0
        /\ (c[a, b] < 0) <=> (c[b, a] > 0)

\* x placed after every element that does not compare greater than it
RECURSIVE insertStable(_, _, _)
insertStable(times, sorted, x) ==
  IF sorted = <<>> THEN <<x>>
  ELSE LET last == sorted[Len(sorted)]
       IN  IF compareOpenTime(times, last, x) > 0
           THEN Append(insertStable(times, SubSeq(sorted, 1, Len(sorted) - 1), x), last)
           ELSE Append(sorted, x)

RECURSIVE stableSort(_, _)
stableSort(times, bucket) ==
  IF bucket = <<>> THEN <<>>
  ELSE insertStable(times,
                    stableSort(times, SubSeq(bucket, 1, Len(bucket) - 1)),
                    bucket[Len(bucket)])

\* every order of the bucket's elements
Reorderings(bucket) ==
  {p \in [1..Len(bucket) -> {bucket[k] : k \in 1..Len(bucket)}] :
     \A a, b \in 1..Len(bucket) : a # b => p[a] # p[b]}

\* Array.prototype.sort(comparator): stable and ascending under a consistent
\* comparator, an implementation-defined order otherwise
sortOutcomes(times, bucket) ==
  IF Len(bucket) < 2 THEN {bucket}
  ELSE IF consistentComparator(times, bucket) THEN {stableSort(times, bucket)}
  ELSE Reorderings(bucket)

\* the three sorts of one group
sortedGroups(times, group) ==
  {[winners |-> w, breakeven |-> b, losers |-> l] :
     w \in sortOutcomes(times, group.winners),
     b \in sortOutcomes(times, group.breakeven),
     l \in sortOutcomes(times, group.losers)}

groupThrows(times, group) ==
  \/ sortThrows(times, group.winners)
  \/ sortThrows(times, group.breakeven)
  \/ sortThrows(times, group.losers)

\* the results the sorting loop can leave in grouped
sortedGrouped(times, g) ==
  LET outcomes == [k \in DOMAIN g |-> sortedGroups(times, g[k])]
  IN  IF \A k \in DOMAIN g : Cardinality(outcomes[k]) = 1
      THEN {[k \in DOMAIN g |-> CHOOSE x \in outcomes[k] : TRUE]}
      ELSE {h \in [DOMAIN g -> UNION {outcomes[k] : k \in DOMAIN g}] :
              \A k \in DOMAIN g : h[k] \in outcomes[k]}

(***************************************************************************)
(* generatePineScript.  The script is given by its title and the sequence  *)
(* of its drawing statements; the fixed lines of the template and the      *)
(* tooltip texts are not modelled.                                         *)
(***************************************************************************)
\* String.prototype.toUpperCase
toUpperCase(s) ==
  CASE s = "eurusd" -> "EURUSD"
    [] s = "gbpusd" -> "GBPUSD"
    [] OTHER -> s

\* return convertToPineScriptTimestamp(utcDate), of what parseMT4DateToUTC gave
timestampOf(parsed) ==
  [throws |-> parsed.throws, timestamp |-> convertToPineScriptTimestamp(parsed.time)]

\* toTimestamp: [throws, timestamp]
toTimestamp(text) == timestampOf(parseMT4DateToUTC(Chars(text)))

\* toTimestamp of each of these texts
toTimestampOf == [text \in TimeTexts |-> toTimestamp(text)]

\* label.new(timestamp(...), price, style=..., color=color.new(colour, 20),
\* textcolor=colour, ...)
labelNew(x, y, style, colour) ==
  [fn |-> "label.new", x1 |-> x, y1 |-> y, x2 |-> x, y2 |-> y, style |-> style,
   color |-> colour, textcolor |-> colour]

\* line.new(timestamp(...), price, timestamp(...), price,
\* color=color.new(color.white, 20), style=line.style_dotted, ...)
lineNew(xa, ya, xb, yb) ==
  [fn |-> "line.new", x1 |-> xa, y1 |-> ya, x2 |-> xb, y2 |-> yb,
   style |-> "line.style_dotted", color |-> "color.white", textcolor |-> ""]

\* trade.type === 'buy' ? 'label.style_triangleup' : 'label.style_triangledown'
loserStyle(trade) ==
  IF trade.type = "buy" THEN "label.style_triangleup" ELSE "label.style_triangledown"

\* the statements of one trade, open and close being toTimestamp of its open
\* and close time: [throws, out]
tradeLabels(trade, type, open, close) ==
  IF open.throws THEN [throws |-> TRUE, out |-> <<>>]
  ELSE IF type = "winner"
  THEN IF close.throws THEN [throws |-> TRUE, out |-> <<>>]
       ELSE [throws |-> FALSE,
             out |-> <<labelNew(open.timestamp, trade.openPrice, "label.style_diamond",
                                "color.green"),
                       labelNew(close.timestamp, trade.closePrice, "label.style_diamond",
                                "color.green"),
                       lineNew(open.timestamp, trade.openPrice, close.timestamp,
                               trade.closePrice)>>]
  ELSE IF type = "breakeven"
  THEN [throws |-> FALSE,
        out |-> <<labelNew(open.timestamp, trade.openPrice, "label.style_circle",
                           "color.blue")>>]
  ELSE [throws |-> FALSE,
        out |-> <<labelNew(open.timestamp, trade.openPrice, loserStyle(trade), "color.red")>>]

\* the statements of the trades from i on, after those of trade i
labelsAfter(one, rest) ==
  IF one.throws \/ rest.throws THEN [throws |-> TRUE, out |-> <<>>]
  ELSE [throws |-> FALSE, out |-> one.out \o rest.out]

\* generateLabels: trades.map(...).join(''), from trade i on
RECURSIVE generateLabels(_, _, _)
generateLabels(trades, type, i) ==
  IF i > Len(trades) THEN [throws |-> FALSE, out |-> <<>>]
  ELSE labelsAfter(tradeLabels(trades[i], type, toTimestampOf[trades[i].openTimeRaw],
                               toTimestampOf[trades[i].closeTimeRaw]),
                   generateLabels(trades, type, i + 1))

\* the template with the three lists of statements in place
scriptOf(ofItem, w, b, l) ==
  IF w.throws \/ b.throws \/ l.throws
  THEN [throws |-> TRUE, title |-> "", statements |-> <<>>]
  ELSE [throws |-> FALSE, title |-> toUpperCase(ofItem), statements |-> w.out \o b.out \o l.out]

\* generatePineScript: [throws, title, statements]
generatePineScript(ofItem, ofData) ==
  scriptOf(ofItem, generateLabels(ofData.winners, "winner", 1),
           generateLabels(ofData.breakeven, "breakeven", 1),
           generateLabels(ofData.losers, "loser", 1))

(***************************************************************************)
(* Markup.  htmContent is the sequence of table start tags and rows of the *)
(* document; a row is the sequence of the texts of its td cells.  Nested   *)
(* tables and text outside cells are not modelled.                         *)
(***************************************************************************)
HeaderRow == <<" Closed Transactions: ">>
LooseMarkerRow == <<"see Closed Transactions: below">>
OpenTradesRow == <<"Open Trades:">>
ClosedPLRow ==
  <<"7 Closed P/L:", OpenA, "buy", "1", "EURUSD", "1", "0", "0", CloseA, "2", "0", "0", "0", "50">>
TradeRowA ==
  <<" 1001 ", OpenA, "buy", "1", "EURUSD", "1", "0", "0", CloseA, "2", "0", "0", "0", "1 250">>
TradeRowB ==
  <<"1002", OpenEmpty, "sell", "n/a", "GBPUSD", "2", "0", "0", "", "", "0", "0", "0", "n/a">>
TradeRowC ==
  <<"1002", OpenNaN, "sell", "1", "EURUSD", "2", "0", "0", CloseA, "1", "0", "0", "0", "50">>
ShortRow ==
  <<"1002", OpenA, "balance", "1", "EURUSD", "1", "0", "0", CloseA, "2", "0", "0", "50">>
TextRow ==
  <<"abc", OpenA, "buy", "1", "EURUSD", "1", "0", "0", CloseA, "2", "0", "0", "0", "50">>

RowSpace ==
  {HeaderRow, LooseMarkerRow, OpenTradesRow, ClosedPLRow, TradeRowA, TradeRowB, TradeRowC,
   ShortRow, TextRow}

TableTag == [tag |-> "table", cells |-> <<>>]
RowTag(cells) == [tag |-> "tr", cells |-> cells]
Tokens == {TableTag} \cup {RowTag(r) : r \in RowSpace}


\* doc.getElementsByTagName('table'): each table as the sequence of its rows
RECURSIVE getTables(_, _)
getTables(htm, acc) ==
  IF htm = <<>> THEN acc
  ELSE IF Head(htm).tag = "table" THEN getTables(Tail(htm), Append(acc, <<>>))
  ELSE IF acc = <<>> THEN getTables(Tail(htm), acc)
  ELSE getTables(Tail(htm), [acc EXCEPT ![Len(acc)] = Append(@, Head(htm).cells)])

\* tableTextIncludes reading only the first cell of the first row
tableTextIncludes_firstCell(table, needle) ==
  Len(table) > 0 /\ Len(table[1]) > 0 /\ Includes(table[1][1], needle)

\* tables[i].textContent.includes(needle)
tableTextIncludes(table, needle) ==
  \E r \in 1..Len(table) : \E c \in 1..Len(table[r]) : Includes(table[r][c], needle)

\* the first table whose text includes the marker, 0 for null
findClosedTransactionsTable(tables) ==
  IF \E i \in 1..Len(tables) : tableTextIncludes(tables[i], "Closed Transactions:")
  THEN CHOOSE i \in 1..Len(tables) :
         /\ tableTextIncludes(tables[i], "Closed Transactions:")
         /\ \A k \in 1..(i - 1) : ~tableTextIncludes(tables[k], "Closed Transactions:")
  ELSE 0

\* cells.length > 0 && cells[0].textContent.trim() === 'Closed Transactions:'
isHeaderRow(cells) == Len(cells) > 0 /\ Trim(cells[1]) = "Closed Transactions:"

\* isTerminatorRow without the 'Closed P/L:' alternative
isTerminatorRow_openTradesOnly(cells) ==
  Len(cells) > 0 /\ Includes(cells[1], "Open Trades:")

\* cells.length > 0 && (cells[0] includes 'Open Trades:' || includes 'Closed P/L:')
isTerminatorRow(cells) ==
  Len(cells) > 0 /\ (Includes(cells[1], "Open Trades:") \/ Includes(cells[1], "Closed P/L:"))

\* cells.length === 14 && !isNaN(parseFloat(cells[0].textContent || ''))
isTradeRow(cells) == Len(cells) = 14 /\ ~isNaN(parseFloat(OrElse(cells[1], "")))

\* the trade record built from an accepted row
makeTrade(cells) ==
  [ticket |-> OrElse(Trim(cells[1]), ""),
   openTimeRaw |-> OrElse(Trim(cells[2]), ""),
   type |-> OrElse(Trim(cells[3]), "unknown"),
   size |-> parseFloat(OrElse(Trim(cells[4]), "0")),
   item |-> toLowerCase(OrElse(Trim(cells[5]), "unknown")),
   openPrice |-> parseFloat(OrElse(Trim(cells[6]), "0")),
   closeTimeRaw |-> OrElse(Trim(cells[9]), ""),
   closePrice |-> parseFloat(OrElse(Trim(cells[10]), "0")),
   profit |-> parseFloat(StripSpaces(OrElse(cells[14], "0")))]

(***************************************************************************)
(* Trade lists handed directly to classifyAndGroupTrades.                  *)
(***************************************************************************)
Tolerances == {Num(0), Num(1)}

\* a malformed open time or a NaN profit comes with one item and one price, and
\* the second price with one open time, to keep the lists few
TradeSpace ==
  {t \in [ticket : {"1001"}, openTimeRaw : {OpenA, OpenB, OpenNaN}, type : {"buy"},
          size : {Num(1)}, item : {"eurusd", "gbpusd"}, openPrice : {Num(1), Num(2)},
          closeTimeRaw : {CloseA}, closePrice : {Num(2)},
          profit : {Num(-1), Num(0), Num(1), Num(2), NaN}] :
     /\ (t.profit.nan \/ t.openTimeRaw = OpenNaN) => (t.item = "eurusd" /\ t.openPrice = Num(1))
     /\ t.openPrice = Num(2) => t.openTimeRaw = OpenA}

TradeLists == UNION {[1..n -> TradeSpace] : n \in 1..MaxTrades}

(***************************************************************************)
(* State.                                                                  *)
(***************************************************************************)
VARIABLES
  pc,                       \* position in the running function
  htmContent,               \* the document
  beTolerance,              \* the tolerance argument
  closedTransactionsTable,  \* the located table (its position, 0 for null)
  rowIdx,                   \* the row the for loop is at
  isProcessing,             \* the header has been seen
  allTrades,                \* accepted trade records
  grouped,                  \* classifyAndGroupTrades' grouped
  winnersMap,               \* classifyAndGroupTrades' winnersMap
  settled,                  \* the promise: pending, fulfilled with grouped, or rejected
  dateStr,                  \* toTimestamp's argument, by its characters
  utcDate,                  \* toTimestamp's utcDate
  timestamp,                \* the PineScriptTimestamp toTimestamp returns
  item,                     \* generatePineScript's item
  data,                     \* generatePineScript's data: the buckets of the item
  script,                   \* what generatePineScript returns
  appBeTolerance,           \* App's state beTolerance, shown in the tolerance input
  groupedTrades,            \* App's state groupedTrades: the displayed result
  fileName,                 \* App's state fileName: the file selected last
  isLoading,                \* App's state isLoading
  error,                    \* App's state error: the displayed message
  lastProcessedContent,     \* App's ref lastProcessedContent
  readers                   \* the FileReaders whose load event has not been delivered

\* the state of toTimestamp
reconcilerVars == <<dateStr, utcDate, timestamp>>

\* the state of generatePineScript
generatorVars == <<item, data, script>>

\* the state of App
appVars ==
  <<appBeTolerance, groupedTrades, fileName, isLoading, error, lastProcessedContent, readers>>

vars == <<pc, htmContent, beTolerance, closedTransactionsTable, rowIdx, isProcessing,
          allTrades, grouped, winnersMap, settled, reconcilerVars, generatorVars, appVars>>

\* the state of processReport
reportVars == <<htmContent, beTolerance, closedTransactionsTable, rowIdx, isProcessing,
                allTrades, grouped, winnersMap, settled>>

\* processReport has not been called
ReportIdle ==
  /\ htmContent = <<>>
  /\ beTolerance = Num(0)
  /\ closedTransactionsTable = 0
  /\ rowIdx = 0
  /\ isProcessing = FALSE
  /\ allTrades = <<>>
  /\ grouped = NoGroups
  /\ winnersMap = <<>>
  /\ settled = [state |-> "pending", reason |-> ""]

\* groupedTrades === null: nothing is displayed
NoResult == [grouped |-> NoGroups, allTrades |-> <<>>]

\* App as first rendered: the initial values of useState and useRef, with ""
\* for a null text and the empty document for a null content
AppIdle ==
  /\ appBeTolerance = Num(0)
  /\ groupedTrades = NoResult
  /\ fileName = ""
  /\ isLoading = FALSE
  /\ error = ""
  /\ lastProcessedContent = <<>>
  /\ readers = {}

\* no script generated yet
NoScript == [throws |-> FALSE, title |-> "", statements |-> <<>>]

\* generatePineScript has not been called
GeneratorIdle ==
  /\ item = ""
  /\ data = EmptyGroup
  /\ script = NoScript

\* no timestamp computed yet
NoTimestamp == [year |-> NaN, month |-> NaN, day |-> NaN, hours |-> NaN, minutes |-> NaN]

\* toTimestamp has not been called
ReconcilerIdle == dateStr = <<>> /\ utcDate = NaN /\ timestamp = NoTimestamp

MissingSection == "Could not find the 'Closed Transactions' table in the report."
EmptyReport == "No closed trades found in the report. Please check the file content."
Malformed == "Failed to parse the HTML file. It might be corrupted or in an unexpected format."

Pending == [state |-> "pending", reason |-> ""]
Fulfilled == [state |-> "fulfilled", reason |-> ""]
Rejected(msg) == [state |-> "rejected", reason |-> msg]

\* the rows of the located table
rows == getTables(htmContent, <<>>)[closedTransactionsTable]

\* processReport called with a document: empty, or a table tag followed by up
\* to MaxLen - 1 table tags and rows
Init ==
  /\ pc = "locate"
  /\ \/ htmContent = <<>>
     \/ \E n \in 0..(MaxLen - 1) : \E rest \in [1..n -> Tokens] : htmContent = <<TableTag>> \o rest
  /\ beTolerance \in Tolerances
  /\ closedTransactionsTable = 0
  /\ rowIdx = 0
  /\ isProcessing = FALSE
  /\ allTrades = <<>>
  /\ grouped = NoGroups
  /\ winnersMap = <<>>
  /\ settled = Pending
  /\ ReconcilerIdle
  /\ GeneratorIdle
  /\ AppIdle

\* classifyAndGroupTrades entered with a list of trade records
InitClassify ==
  /\ pc = "firstPass"
  /\ htmContent = <<>>
  /\ beTolerance \in Tolerances
  /\ closedTransactionsTable = 0
  /\ rowIdx = 0
  /\ isProcessing = FALSE
  /\ allTrades \in TradeLists
  /\ grouped = NoGroups
  /\ winnersMap = <<>>
  /\ settled = Pending
  /\ ReconcilerIdle
  /\ GeneratorIdle
  /\ AppIdle

\* lines 72-92: parse, locate the table, reject when there is none
LocateTable ==
  /\ pc = "locate"
  /\ LET tables == getTables(htmContent, <<>>)
         t == findClosedTransactionsTable(tables)
     IN  /\ closedTransactionsTable' = t
         /\ IF t = 0
            THEN /\ settled' = Rejected(MissingSection)
                 /\ pc' = "done"
                 /\ rowIdx' = rowIdx
            ELSE /\ settled' = settled
                 /\ rowIdx' = 1
                 /\ pc' = IF Len(tables[t]) = 0 THEN "checkEmpty" ELSE "rows"
  /\ UNCHANGED <<htmContent, beTolerance, isProcessing, allTrades, grouped, winnersMap>>
  /\ UNCHANGED <<reconcilerVars, generatorVars, appVars>>

\* lines 94-123: one iteration of the loop over the rows
ProcessRow ==
  /\ pc = "rows"
  /\ LET cells == rows[rowIdx]
         next == IF rowIdx + 1 > Len(rows) THEN "checkEmpty" ELSE "rows"
     IN  IF isHeaderRow(cells)
         THEN /\ isProcessing' = TRUE
              /\ allTrades' = allTrades
              /\ rowIdx' = rowIdx + 1
              /\ pc' = next
         ELSE IF ~isProcessing
         THEN /\ UNCHANGED <<isProcessing, allTrades>>
              /\ rowIdx' = rowIdx + 1
              /\ pc' = next
         ELSE IF isTerminatorRow(cells)
         THEN /\ UNCHANGED <<isProcessing, allTrades, rowIdx>>
              /\ pc' = "checkEmpty"
         ELSE /\ allTrades' = IF isTradeRow(cells) THEN Append(allTrades, makeTrade(cells))
                              ELSE allTrades
              /\ isProcessing' = isProcessing
              /\ rowIdx' = rowIdx + 1
              /\ pc' = next
  /\ UNCHANGED <<htmContent, beTolerance, closedTransactionsTable, grouped, winnersMap, settled>>
  /\ UNCHANGED <<reconcilerVars, generatorVars, appVars>>

\* CheckEmpty without the length test: an empty list goes on to be classified
CheckEmpty_noTest ==
  /\ pc = "checkEmpty"
  /\ settled' = settled /\ pc' = "firstPass"
  /\ UNCHANGED <<htmContent, beTolerance, closedTransactionsTable, rowIdx, isProcessing,
                 allTrades, grouped, winnersMap>>
  /\ UNCHANGED <<reconcilerVars, generatorVars, appVars>>

\* lines 125-127: reject when no row was accepted
CheckEmpty ==
  /\ pc = "checkEmpty"
  /\ IF Len(allTrades) = 0
     THEN settled' = Rejected(EmptyReport) /\ pc' = "done"
     ELSE settled' = settled /\ pc' = "firstPass"
  /\ UNCHANGED <<htmContent, beTolerance, closedTransactionsTable, rowIdx, isProcessing,
                 allTrades, grouped, winnersMap>>
  /\ UNCHANGED <<reconcilerVars, generatorVars, appVars>>

\* lines 144-164: the first pass of classifyAndGroupTrades
FirstPass ==
  /\ pc = "firstPass"
  /\ LET st == firstPass([grouped |-> NoGroups, winnersMap |-> <<>>], allTrades, beTolerance, 1)
     IN  grouped' = st.grouped /\ winnersMap' = st.winnersMap
  /\ pc' = "secondPass"
  /\ UNCHANGED <<htmContent, beTolerance, closedTransactionsTable, rowIdx, isProcessing,
                 allTrades, settled>>
  /\ UNCHANGED <<reconcilerVars, generatorVars, appVars>>

\* lines 166-169: the surviving winners join their groups
SecondPass ==
  /\ pc = "secondPass"
  /\ grouped' = secondPass(grouped, winnersMap, allTrades, 1)
  /\ pc' = "sort"
  /\ UNCHANGED <<htmContent, beTolerance, closedTransactionsTable, rowIdx, isProcessing,
                 allTrades, winnersMap, settled>>
  /\ UNCHANGED <<reconcilerVars, generatorVars, appVars>>

\* lines 171-178 and 129-133: every bucket is sorted and the promise resolves
\* with grouped; an exception of the comparator rejects it
SortBuckets ==
  /\ pc = "sort"
  /\ LET times == openTimes(allTrades)
     IN  IF \E k \in DOMAIN grouped : groupThrows(times, grouped[k])
         THEN /\ settled' = Rejected(Malformed)
              /\ grouped' = grouped
         ELSE /\ settled' = Fulfilled
              /\ grouped' \in sortedGrouped(times, grouped)
  /\ pc' = "done"
  /\ UNCHANGED <<htmContent, beTolerance, closedTransactionsTable, rowIdx, isProcessing,
                 allTrades, winnersMap>>
  /\ UNCHANGED <<reconcilerVars, generatorVars, appVars>>

Next == LocateTable \/ ProcessRow \/ CheckEmpty \/ FirstPass \/ SecondPass \/ SortBuckets

Spec == Init /\ [][Next]_vars

NextClassify == FirstPass \/ SecondPass \/ SortBuckets

SpecClassify == InitClassify /\ [][NextClassify]_vars

(***************************************************************************)
(* toTimestamp called with the timestamps the terminal writes.             *)
(***************************************************************************)
Years == {2024, 2025}
Months == {1, 3, 6, 12}
Days == {1, 25}
Hours == {0, 2, 3, 6, 7, 16, 23}
Minutes == {0, 9, 59}
Seconds == {0, 1, 59}

TwoDigits(n) == <<DigitChars[(n \div 10) + 1], DigitChars[(n % 10) + 1]>>

\* the text YYYY.MM.DD HH:MM:SS of a broker-local time
FormatMT4(y, mo, d, h, mi, sec) ==
  TwoDigits(y \div 100) \o TwoDigits(y % 100) \o <<".">> \o TwoDigits(mo) \o <<".">>
    \o TwoDigits(d) \o <<" ">> \o TwoDigits(h) \o <<":">> \o TwoDigits(mi) \o <<":">>
    \o TwoDigits(sec)

BrokerTimestamps ==
  {FormatMT4(y, mo, d, h, mi, sec) :
     y \in Years, mo \in Months, d \in Days, h \in Hours, mi \in Minutes, sec \in Seconds}

\* toTimestamp entered with a broker-local timestamp
InitTimestamp ==
  /\ pc = "toTimestamp"
  /\ ReportIdle
  /\ dateStr \in BrokerTimestamps
  /\ utcDate = NaN
  /\ timestamp = NoTimestamp
  /\ GeneratorIdle
  /\ AppIdle

\* const utcDate = parseMT4DateToUTC(dateStr)
ParseDate ==
  /\ pc = "toTimestamp"
  /\ LET r == parseMT4DateToUTC(dateStr)
     IN  IF r.throws
         THEN pc' = "threw" /\ utcDate' = utcDate
         ELSE pc' = "convert" /\ utcDate' = r.time
  /\ UNCHANGED <<reportVars, dateStr, timestamp, generatorVars, appVars>>

\* return convertToPineScriptTimestamp(utcDate)
ConvertTimestamp ==
  /\ pc = "convert"
  /\ timestamp' = convertToPineScriptTimestamp(utcDate)
  /\ pc' = "returned"
  /\ UNCHANGED <<reportVars, dateStr, utcDate, generatorVars, appVars>>

NextTimestamp == ParseDate \/ ConvertTimestamp

SpecTimestamp == InitTimestamp /\ [][NextTimestamp]_vars

(***************************************************************************)
(* generatePineScript called with the buckets of one item of a result of   *)
(* processReport.                                                          *)
(***************************************************************************)
MaxBucket == 2

\* the trades of the buckets: sides buy, sell and Buy, and the open times a
\* trade record can carry
ScriptTrades ==
  {[ticket |-> "1001", openTimeRaw |-> o, type |-> ty, size |-> Num(1), item |-> "eurusd",
    openPrice |-> Num(1), closeTimeRaw |-> CloseA, closePrice |-> Num(2), profit |-> Num(0)] :
     o \in {OpenA, OpenEmpty}, ty \in {"buy", "sell", "Buy"}}

Buckets == UNION {[1..n -> ScriptTrades] : n \in 0..MaxBucket}

\* a bucket as the sort of classifyAndGroupTrades can leave it: a text that
\* makes the comparator throw is alone, the open times ascend
SortedBucket(b) ==
  /\ (\E p \in 1..Len(b) : parseMT4DateToUTCOf[b[p].openTimeRaw].throws) => Len(b) = 1
  /\ \A p \in 1..(Len(b) - 1) :
       LE(parseMT4DateToUTCOf[b[p].openTimeRaw].time,
          parseMT4DateToUTCOf[b[p + 1].openTimeRaw].time)

SortedBuckets == {b \in Buckets : SortedBucket(b)}

\* the trades of a bucket with the profit of its kind
withProfit(b, profit) == [p \in 1..Len(b) |-> [b[p] EXCEPT !.profit = profit]]

\* the buckets of trades of one profit
BucketsOf(profit) == {withProfit(b, profit) : b \in SortedBuckets}

\* generatePineScript entered with the buckets of eurusd
InitScript ==
  /\ pc = "generatePineScript"
  /\ ReportIdle
  /\ ReconcilerIdle
  /\ item = "eurusd"
  /\ data \in [winners : BucketsOf(Num(2)), breakeven : BucketsOf(Num(0)),
               losers : BucketsOf(Num(-1))]
  /\ script = NoScript
  /\ AppIdle

\* lines 10-80: the script is returned, or an exception of toTimestamp leaves
\* the function
GeneratePineScript ==
  /\ pc = "generatePineScript"
  /\ script' = generatePineScript(item, data)
  /\ pc' = IF script'.throws THEN "threw" ELSE "returned"
  /\ UNCHANGED <<reportVars, reconcilerVars, item, data, appVars>>

NextScript == GeneratePineScript

SpecScript == InitScript /\ [][NextScript]_vars

(***************************************************************************)
(* App: file selections, load events of the FileReaders and changes of the *)
(* tolerance input, each handler run to its end before the next event.     *)
(* processReport runs inside handleProcessReport, and the code after the   *)
(* await runs before any other event is delivered.                         *)
(***************************************************************************)
MaxReaders == 2

TradeRowD ==
  <<"1002", OpenB, "sell", "1", "GBPUSD", "2", "0", "0", CloseA, "1", "0", "0", "0", "50">>

\* the reports the user can select: two trades, one trade, no section, no
\* trade, two trades without open time
ReportA == <<TableTag, RowTag(HeaderRow), RowTag(TradeRowA), RowTag(TradeRowD)>>
ReportB == <<TableTag, RowTag(HeaderRow), RowTag(TradeRowA)>>
ReportBad == <<TableTag, RowTag(ShortRow)>>
ReportNoTrades == <<TableTag, RowTag(HeaderRow), RowTag(OpenTradesRow)>>
ReportNoTimes == <<TableTag, RowTag(HeaderRow), RowTag(TradeRowB), RowTag(TradeRowB)>>

Files ==
  {[name |-> "a.htm", content |-> ReportA], [name |-> "b.htm", content |-> ReportB],
   [name |-> "bad.htm", content |-> ReportBad],
   [name |-> "none.htm", content |-> ReportNoTrades],
   [name |-> "notimes.htm", content |-> ReportNoTimes]}

\* the texts typed into the tolerance input
ToleranceTexts == {"", "abc", "0", "50", "-30"}

\* x || dflt on a number: NaN and 0 are falsy
NumOrElse(x, dflt) == IF x.nan \/ x.v = 0 THEN dflt ELSE x

App ==
  /\ pc = "idle"
  /\ ReportIdle
  /\ ReconcilerIdle
  /\ GeneratorIdle
  /\ AppIdle

\* handleProcessReport that leaves the displayed result in place
handleProcessReport_keepResult(content, tolerance) ==
  IF content = <<>>
  THEN UNCHANGED <<pc, reportVars, groupedTrades, isLoading, error>>
  ELSE /\ isLoading' = TRUE
       /\ error' = ""
       /\ groupedTrades' = groupedTrades
       /\ htmContent' = content
       /\ beTolerance' = tolerance
       /\ pc' = "locate"
       /\ closedTransactionsTable' = 0
       /\ rowIdx' = 0
       /\ isProcessing' = FALSE
       /\ allTrades' = <<>>
       /\ grouped' = NoGroups
       /\ winnersMap' = <<>>
       /\ settled' = Pending

\* lines 20-25: handleProcessReport up to the call of processReport
handleProcessReport(content, tolerance) ==
  IF content = <<>>
  THEN UNCHANGED <<pc, reportVars, groupedTrades, isLoading, error>>
  ELSE /\ isLoading' = TRUE
       /\ error' = ""
       /\ groupedTrades' = NoResult
       /\ htmContent' = content
       /\ beTolerance' = tolerance
       /\ pc' = "locate"
       /\ closedTransactionsTable' = 0
       /\ rowIdx' = 0
       /\ isProcessing' = FALSE
       /\ allTrades' = <<>>
       /\ grouped' = NoGroups
       /\ winnersMap' = <<>>
       /\ settled' = Pending

\* lines 36-47: a file is selected; its reader takes the tolerance of this render
handleFileChange ==
  /\ pc = "idle"
  /\ Cardinality(readers) < MaxReaders
  /\ \E file \in Files :
       /\ file.name # fileName
       /\ fileName' = file.name
       /\ readers' = readers \cup {[content |-> file.content, tolerance |-> appBeTolerance]}
  /\ UNCHANGED <<pc, reportVars, reconcilerVars, generatorVars, appBeTolerance, groupedTrades,
                 isLoading, error, lastProcessedContent>>

\* lines 40-43: the load event of a reader is delivered
ReaderOnload ==
  /\ pc = "idle"
  /\ \E reader \in readers :
       /\ readers' = readers \ {reader}
       /\ handleProcessReport(reader.content, reader.tolerance)
  /\ UNCHANGED <<reconcilerVars, generatorVars, appBeTolerance, fileName, lastProcessedContent>>

\* lines 49-55: the tolerance input changes
handleToleranceChange ==
  /\ pc = "idle"
  /\ \E text \in ToleranceTexts :
       /\ appBeTolerance' = NumOrElse(parseFloat(text), Num(0))
       /\ IF lastProcessedContent # <<>>
          THEN handleProcessReport(lastProcessedContent, appBeTolerance')
          ELSE UNCHANGED <<pc, reportVars, groupedTrades, isLoading, error>>
  /\ UNCHANGED <<reconcilerVars, generatorVars, fileName, lastProcessedContent, readers>>

\* lines 26-33: handleProcessReport after the await
AwaitProcessReport ==
  /\ pc = "done"
  /\ IF settled.state = "fulfilled"
     THEN /\ groupedTrades' = [grouped |-> grouped, allTrades |-> allTrades]
          /\ lastProcessedContent' = htmContent
          /\ error' = error
     ELSE /\ error' = settled.reason
          /\ UNCHANGED <<groupedTrades, lastProcessedContent>>
  /\ isLoading' = FALSE
  /\ pc' = "idle"
  /\ UNCHANGED <<reportVars, reconcilerVars, generatorVars, appBeTolerance, fileName, readers>>

NextApp ==
  \/ handleFileChange \/ ReaderOnload \/ handleToleranceChange \/ AwaitProcessReport
  \/ LocateTable \/ ProcessRow \/ CheckEmpty \/ FirstPass \/ SecondPass \/ SortBuckets

SpecApp == App /\ [][NextApp]_vars

(***************************************************************************)
(* Properties of classifyAndGroupTrades (checked under SpecClassify).      *)
(***************************************************************************)
\* the promise resolved with grouped
Resolved == pc = "done" /\ settled.state = "fulfilled"

\* the first pass is over
Classified == pc \in {"secondPass", "sort", "done"} /\ Len(allTrades) > 0

TradeRefs == 1..Len(allTrades)

\* how often a reference occurs in a bucket, and in the three buckets of a group
CountInBucket(bucket, ref) == Cardinality({p \in 1..Len(bucket) : bucket[p] = ref})
CountInGroup(k, ref) ==
  CountInBucket(grouped[k].winners, ref) + CountInBucket(grouped[k].breakeven, ref)
    + CountInBucket(grouped[k].losers, ref)

Candidate(i) == GT(allTrades[i].profit, beTolerance)
InBand(i) == GE(allTrades[i].profit, Neg(beTolerance)) /\ LE(allTrades[i].profit, beTolerance)
Below(i) == LT(allTrades[i].profit, Neg(beTolerance))

SameKey(i, j) ==
  /\ allTrades[i].openTimeRaw = allTrades[j].openTimeRaw
  /\ allTrades[i].openPrice = allTrades[j].openPrice

\* candidate j displaces candidate i: greater profit, or the same profit and earlier
Beats(j, i) ==
  /\ j # i /\ Candidate(j) /\ Candidate(i) /\ SameKey(i, j)
  /\ \/ GT(allTrades[j].profit, allTrades[i].profit)
     \/ allTrades[j].profit = allTrades[i].profit /\ j < i

LosesDedup(i) == \E j \in TradeRefs : Beats(j, i)

\* C1 as stated: every trade of the input list is in exactly one bucket of the
\* group of its own item and in no bucket of another group.
C1_Partition ==
  (Resolved /\ GE(beTolerance, Num(0))) =>
    \A i \in TradeRefs :
      /\ allTrades[i].item \in DOMAIN grouped
      /\ \A k \in DOMAIN grouped :
           CountInGroup(k, i) = IF k = allTrades[i].item THEN 1 ELSE 0

\* C1 amended: every trade is in no bucket of another group and in exactly one
\* bucket of its own group, except a winner candidate displaced by a candidate
\* with the same (openTimeRaw, openPrice), which is in no bucket at all.
C1_PartitionUpToDedup ==
  (Resolved /\ GE(beTolerance, Num(0))) =>
    \A i \in TradeRefs :
      /\ allTrades[i].item \in DOMAIN grouped
      /\ \A k \in DOMAIN grouped :
           CountInGroup(k, i) = IF k = allTrades[i].item /\ ~LosesDedup(i) THEN 1 ELSE 0

C1_Witness ==
  /\ Resolved /\ GE(beTolerance, Num(0))
  /\ \E i \in TradeRefs : LosesDedup(i) /\ \A k \in DOMAIN grouped : CountInGroup(k, i) = 0
  /\ \E j \in TradeRefs : CountInBucket(grouped[allTrades[j].item].winners, j) = 1

\* C2 as stated: two winner candidates with the same (openTimeRaw, openPrice)
\* and different items both survive, each in the winners of its own group.
C2_NoMergeAcrossInstruments ==
  Resolved =>
    \A i, j \in TradeRefs :
      (Candidate(i) /\ Candidate(j) /\ SameKey(i, j)
         /\ allTrades[i].item # allTrades[j].item) =>
        /\ CountInBucket(grouped[allTrades[i].item].winners, i) = 1
        /\ CountInBucket(grouped[allTrades[j].item].winners, j) = 1

\* C3 as stated: for a tolerance t >= 0 a trade is a winner candidate (in
\* neither the breakeven nor the losers bucket) iff profit > t, in breakeven
\* iff -t <= profit <= t, and in losers iff profit < -t.
C3_Thresholds ==
  (Classified /\ GE(beTolerance, Num(0))) =>
    \A i \in TradeRefs :
      LET g == grouped[allTrades[i].item]
      IN  /\ (CountInBucket(g.breakeven, i) = 0 /\ CountInBucket(g.losers, i) = 0)
               <=> Candidate(i)
          /\ CountInBucket(g.breakeven, i) > 0 <=> InBand(i)
          /\ CountInBucket(g.losers, i) > 0 <=> Below(i)

\* C4: no two winners of one group have the same (openTimeRaw, openPrice).
C4_WinnersDistinctKeys ==
  (pc = "sort" \/ Resolved) =>
    \A k \in DOMAIN grouped :
      \A p, q \in 1..Len(grouped[k].winners) :
        p # q => ~SameKey(grouped[k].winners[p], grouped[k].winners[q])

C4_Witness ==
  /\ Resolved
  /\ \E i, j \in TradeRefs :
       /\ i # j /\ Candidate(i) /\ Candidate(j) /\ SameKey(i, j)
       /\ allTrades[i].item = allTrades[j].item
       /\ Len(grouped[allTrades[i].item].winners) = 1

\* the candidate that must survive for the key of candidate i: the greatest
\* profit, and the first of the list among equals
Survivor(i) ==
  CHOOSE j \in TradeRefs :
    /\ Candidate(j) /\ SameKey(i, j)
    /\ \A c \in TradeRefs : (c # j /\ Candidate(c) /\ SameKey(i, c)) => Beats(j, c)

\* C5: for every dedup key the map keeps, and the result shows, the candidate
\* with the greatest profit, the first of the list when several are greatest.
C5_SurvivorIsGreatestThenFirst ==
  /\ Classified =>
       \A i \in TradeRefs : Candidate(i) =>
         /\ \E e \in 1..Len(winnersMap) : winnersMap[e].value = Survivor(i)
         /\ \A e \in 1..Len(winnersMap) :
              SameKey(winnersMap[e].value, i) => winnersMap[e].value = Survivor(i)
  /\ Resolved =>
       \A i \in TradeRefs : Candidate(i) =>
         (CountInBucket(grouped[allTrades[i].item].winners, i) =
            IF i = Survivor(i) THEN 1 ELSE 0)

C5_Witness ==
  /\ Resolved
  /\ \E i, j \in TradeRefs :
       /\ i < j /\ Candidate(i) /\ Candidate(j) /\ SameKey(i, j)
       /\ allTrades[i].profit = allTrades[j].profit
       /\ CountInBucket(grouped[allTrades[i].item].winners, i) = 1

\* C6 as stated: for every item the breakeven bucket holds exactly the trades
\* of the item with -t <= profit <= t and the losers bucket exactly those with
\* profit < -t, each once.
C6_BreakevenLosersUnfiltered ==
  Resolved =>
    \A k \in DOMAIN grouped :
      /\ \A i \in TradeRefs :
           CountInBucket(grouped[k].breakeven, i) =
             IF allTrades[i].item = k /\ InBand(i) THEN 1 ELSE 0
      /\ \A i \in TradeRefs :
           CountInBucket(grouped[k].losers, i) =
             IF allTrades[i].item = k /\ Below(i) THEN 1 ELSE 0

\* true open time of the trade behind a reference
TrueOpenTime(ref) == parseMT4DateToUTCOf[allTrades[ref].openTimeRaw].time

\* the place a reference had in its bucket before the sort: the list order for
\* breakeven and losers, the order of the map for winners
PlaceBeforeSort(b, ref) ==
  IF b = "winners"
  THEN CHOOSE e \in 1..Len(winnersMap) : winnersMap[e].value = ref
  ELSE ref

\* C7 as stated: in every bucket the true open time is non-decreasing over
\* adjacent pairs, and equal times keep their order from before the sort.
C7_SortedAndStable ==
  Resolved =>
    \A k \in DOMAIN grouped : \A b \in {"winners", "breakeven", "losers"} :
      \A p \in 1..(Len(grouped[k][b]) - 1) :
        LET x == grouped[k][b][p]
            y == grouped[k][b][p + 1]
        IN  /\ LE(TrueOpenTime(x), TrueOpenTime(y))
            /\ TrueOpenTime(x) = TrueOpenTime(y) =>
                 PlaceBeforeSort(b, x) < PlaceBeforeSort(b, y)

(***************************************************************************)
(* Properties of processReport (checked under Spec), stated on the markup  *)
(* itself.                                                                 *)
(***************************************************************************)
Marker == "Closed Transactions:"
Positions == 1..Len(htmContent)
IsRow(p) == htmContent[p].tag = "tr"
Cells(p) == htmContent[p].cells

\* the number of the table a position lies in
TableOf(p) == Cardinality({q \in 1..p : htmContent[q].tag = "table"})

\* a row some cell of which contains the marker text
MarkerRow(p) == IsRow(p) /\ \E c \in 1..Len(Cells(p)) : Includes(Cells(p)[c], Marker)

SomeTableHasMarker == \E p \in Positions : MarkerRow(p)

\* the number of the first table that contains the marker text, 0 for none
FirstMarkerTable ==
  IF SomeTableHasMarker
  THEN TableOf(CHOOSE m \in Positions : MarkerRow(m) /\ \A q \in 1..(m - 1) : ~MarkerRow(q))
  ELSE 0

\* the rows of that table
LocatedRows ==
  LET T == FirstMarkerTable
  IN  {p \in Positions : IsRow(p) /\ TableOf(p) = T}

\* the header rows among a set of rows
HeadersIn(R) == {p \in R : Len(Cells(p)) > 0 /\ Trim(Cells(p)[1]) = Marker}

\* the terminator rows among R that follow a header of H
TerminatorsIn(R, H) ==
  {p \in R : /\ Len(Cells(p)) > 0
             /\ Includes(Cells(p)[1], "Open Trades:") \/ Includes(Cells(p)[1], "Closed P/L:")
             /\ \E h \in H : h < p}

\* a row of 14 cells whose first cell parses as a number
TradeShaped(p) == Len(Cells(p)) = 14 /\ ~isNaN(parseFloat(Cells(p)[1]))

\* the acceptance window of C10: after a header, before the first terminator
\* that follows a header, trade-shaped
AcceptedPositions ==
  LET R == LocatedRows
      H == HeadersIn(R)
      Z == TerminatorsIn(R, H)
  IN  {p \in R : /\ \E h \in H : h < p
                 /\ \A t \in Z : p < t
                 /\ TradeShaped(p)}

\* the row loop is over
RowsRead == pc \in {"checkEmpty", "firstPass", "secondPass", "sort", "done"}

\* C8: processReport rejects with the missing-section error exactly when no
\* table of the document contains "Closed Transactions:", and then no grouped
\* result is produced.
C8_MissingSectionIffNoMarkerTable ==
  pc # "locate" =>
    /\ settled = Rejected(MissingSection) <=> ~SomeTableHasMarker
    /\ ~SomeTableHasMarker => (pc = "done" /\ grouped = NoGroups /\ allTrades = <<>>)

C8_Witness ==
  /\ pc = "done" /\ settled = Rejected(MissingSection)
  /\ \E p, q \in Positions : IsRow(p) /\ IsRow(q) /\ TableOf(p) # TableOf(q)

\* C9: when the table is found and no row is accepted, processReport rejects
\* with the empty-report error, and it never resolves with an empty result.
C9_EmptyReportRejected ==
  /\ (pc = "done" /\ SomeTableHasMarker /\ AcceptedPositions = {}) =>
       settled = Rejected(EmptyReport)
  /\ settled.state = "fulfilled" => (DOMAIN grouped # {} /\ Len(allTrades) > 0)

C9_Witness ==
  /\ pc = "done" /\ settled = Rejected(EmptyReport)
  /\ \E h \in HeadersIn(LocatedRows) : \E p \in LocatedRows :
       h < p /\ Len(Cells(p)) > 1 /\ p \notin TerminatorsIn(LocatedRows, HeadersIn(LocatedRows))

\* C10: the accepted trade records are, in order, exactly the rows of the
\* located table that lie after a header row, before the first terminator row
\* after the header, have 14 cells and a first cell that parses as a number.
C10_AcceptanceWindow ==
  (RowsRead /\ closedTransactionsTable # 0) =>
    LET A == AcceptedPositions
    IN  /\ Len(allTrades) = Cardinality(A)
        /\ \A p \in A : allTrades[Cardinality({q \in A : q <= p})] = makeTrade(Cells(p))

C10_Witness ==
  /\ Resolved /\ closedTransactionsTable # 0
  /\ \E a \in AcceptedPositions :
       \E t \in TerminatorsIn(LocatedRows, HeadersIn(LocatedRows)) :
         \E z \in LocatedRows : a < t /\ t < z /\ TradeShaped(z)

\* the numeric cells of a row: size, openPrice, closePrice, profit
NumericCells == {4, 6, 10, 14}

\* the field of a trade record read from a numeric cell
NumericField(trade, c) ==
  CASE c = 4 -> trade.size
    [] c = 6 -> trade.openPrice
    [] c = 10 -> trade.closePrice
    [] c = 14 -> trade.profit

\* the record that came from an accepted position
RecordOf(p) == allTrades[Cardinality({q \in AcceptedPositions : q <= p})]

\* C11 as stated: every numeric field of every accepted trade record is a
\* number, and it is 0 whenever the text of its cell does not parse as one.
C11_BadCellsRecordedAsZero ==
  (RowsRead /\ closedTransactionsTable # 0) =>
    /\ \A i \in 1..Len(allTrades) : \A c \in NumericCells :
         ~isNaN(NumericField(allTrades[i], c))
    /\ \A p \in AcceptedPositions : \A c \in NumericCells :
         isNaN(parseFloat(Cells(p)[c])) => NumericField(RecordOf(p), c) = Num(0)

\* a text of the shape YYYY.MM.DD HH:MM:SS: two parts, three numbers in each
WellFormedTime(s) ==
  LET sp == SplitDate(Chars(s))
  IN  /\ sp.parts = 2
      /\ Len(sp.ymd) = 3 /\ \A k \in 1..3 : ~isNaN(sp.ymd[k])
      /\ Len(sp.hms) = 3 /\ \A k \in 1..3 : ~isNaN(sp.hms[k])

\* C12 as stated: every accepted trade record has a well-formed openTimeRaw
\* and closeTimeRaw, so the sort never parses a malformed or empty text.
C12_AcceptedTimesWellFormed ==
  RowsRead =>
    \A i \in 1..Len(allTrades) :
      /\ WellFormedTime(allTrades[i].openTimeRaw)
      /\ WellFormedTime(allTrades[i].closeTimeRaw)

(***************************************************************************)
(* Properties of the timestamp functions (checked under SpecTimestamp),    *)
(* stated on the text of the timestamp and the calendar.                   *)
(***************************************************************************)
\* the two-digit number at places i, i + 1 of the text
TwoDigitsAt(i) == 10 * DigitValue(dateStr[i]) + DigitValue(dateStr[i + 1])

\* the broker-local calendar time the text denotes
LocalTime ==
  [year |-> 100 * TwoDigitsAt(1) + TwoDigitsAt(3), month |-> TwoDigitsAt(6),
   day |-> TwoDigitsAt(9), hours |-> TwoDigitsAt(12), minutes |-> TwoDigitsAt(15),
   seconds |-> TwoDigitsAt(18)]

LeapYear(y) == y % 4 = 0 /\ (y % 100 # 0 \/ y % 400 = 0)

DaysIn(y, m) ==
  IF m = 2 THEN (IF LeapYear(y) THEN 29 ELSE 28)
  ELSE IF m \in {4, 6, 9, 11} THEN 30 ELSE 31

\* the calendar time n hours (at most 24) before calendar time c, borrowing
\* from the day, the month and the year
HoursEarlier(c, n) ==
  IF c.hours >= n THEN [c EXCEPT !.hours = c.hours - n]
  ELSE IF c.day > 1 THEN [c EXCEPT !.hours = c.hours + 24 - n, !.day = c.day - 1]
  ELSE IF c.month > 1
  THEN [c EXCEPT !.hours = c.hours + 24 - n, !.month = c.month - 1,
                 !.day = DaysIn(c.year, c.month - 1)]
  ELSE [c EXCEPT !.hours = c.hours + 24 - n, !.year = c.year - 1, !.month = 12, !.day = 31]

\* the seconds from 1970-01-01T00:00:00Z to calendar time c read as UTC
InstantOf(c) ==
  LET leaps == Cardinality({y \in 1970..(c.year - 1) : LeapYear(y)})
      before == Cardinality({md \in (1..(c.month - 1)) \X (1..31) : md[2] <= DaysIn(c.year, md[1])})
      days == 365 * (c.year - 1970) + leaps + before + c.day - 1
  IN  days * 86400 + c.hours * 3600 + c.minutes * 60 + c.seconds

\* C13: parseMT4DateToUTC of a well-formed broker-local timestamp is the
\* instant 3 hours earlier, and convertToPineScriptTimestamp of that instant
\* is the calendar tuple (year, 1-based month, day, hour, minute) 7 hours
\* before the broker-local time, with borrow across hour, day, month and
\* year; "2025.06.25 16:09:01" gives 2025-06-25T13:09:01Z and (2025, 6, 25, 9, 9).
C13_TimestampReconciliation ==
  /\ pc \in {"convert", "returned"} => utcDate = Num(InstantOf(HoursEarlier(LocalTime, 3)))
  /\ pc = "returned" =>
       LET c == HoursEarlier(LocalTime, 7)
       IN  timestamp = [year |-> Num(c.year), month |-> Num(c.month), day |-> Num(c.day),
                        hours |-> Num(c.hours), minutes |-> Num(c.minutes)]
  /\ (pc = "returned" /\ dateStr = Chars(OpenA)) =>
       /\ utcDate = Num(1750856941)
       /\ timestamp = [year |-> Num(2025), month |-> Num(6), day |-> Num(25),
                       hours |-> Num(9), minutes |-> Num(9)]
  /\ pc # "threw"

\* a timestamp in the first hours of a year: the tuple falls in the year before
C13_Witness ==
  /\ pc = "returned"
  /\ LocalTime.year = 2025 /\ LocalTime.month = 1 /\ LocalTime.day = 1 /\ LocalTime.hours = 2
  /\ timestamp.year = Num(2024) /\ timestamp.month = Num(12) /\ timestamp.day = Num(31)
  /\ timestamp.hours = Num(19)

(***************************************************************************)
(* Properties of generatePineScript (checked under SpecScript).            *)
(***************************************************************************)
\* the statements of the script that call fn
Calls(fn) == {p \in 1..Len(script.statements) : script.statements[p].fn = fn}

\* the label markers of colour c
LabelsOf(c) ==
  {p \in Calls("label.new") :
     script.statements[p].color = c /\ script.statements[p].textcolor = c}

\* the number of losers whose side is exactly buy
BuyLosers == Cardinality({p \in 1..Len(data.losers) : data.losers[p].type = "buy"})

\* C14 as stated: for w winners, b breakeven and l losers the script has
\* exactly 2w + b + l label markers and w lines; 2w markers are green, b blue
\* and l red; a loser's marker is an upward triangle iff its side is exactly
\* buy, else a downward one.
C14_ScriptShape ==
  pc # "generatePineScript" =>
    LET w == Len(data.winners)
        b == Len(data.breakeven)
        l == Len(data.losers)
    IN  /\ Cardinality(Calls("label.new")) = 2 * w + b + l
        /\ Cardinality(Calls("line.new")) = w
        /\ Cardinality(LabelsOf("color.green")) = 2 * w
        /\ Cardinality(LabelsOf("color.blue")) = b
        /\ Cardinality(LabelsOf("color.red")) = l
        /\ \A p \in 1..l :
             script.statements[3 * w + b + p].style =
               IF data.losers[p].type = "buy" THEN "label.style_triangleup"
               ELSE "label.style_triangledown"

(***************************************************************************)
(* Properties of App (checked under SpecApp).                              *)
(***************************************************************************)
\* processReport has been called and handleProcessReport has not finished
InProcessReport == pc # "idle"

\* C15 as stated: whatever is entered in the tolerance input, the tolerance
\* App passes to processReport is a number >= 0.
C15_ToleranceClamped ==
  InProcessReport => (~isNaN(beTolerance) /\ GE(beTolerance, Num(0)))

\* the three errors of processReport
ReportErrors == {Rejected(MissingSection), Rejected(EmptyReport), Rejected(Malformed)}

\* a grouped result that leaves no accepted trade out: each trade is in a
\* bucket of the group of its item, or it is a winner candidate and a trade
\* with its key is among the winners
CompleteResult ==
  /\ Len(allTrades) > 0
  /\ \A i \in 1..Len(allTrades) :
       /\ allTrades[i].item \in DOMAIN grouped
       /\ \/ CountInGroup(allTrades[i].item, i) = 1
          \/ /\ GT(allTrades[i].profit, beTolerance)
             /\ \E k \in DOMAIN grouped : \E p \in 1..Len(grouped[k].winners) :
                  /\ allTrades[grouped[k].winners[p]].openTimeRaw = allTrades[i].openTimeRaw
                  /\ allTrades[grouped[k].winners[p]].openPrice = allTrades[i].openPrice

\* C16: each call of processReport settles exactly once, resolving with a
\* complete grouped result or rejecting with one of the three errors, and
\* whenever handleProcessReport has finished, the error message and the
\* grouped result of App are not both set.
C16_ErrorsTerminal ==
  /\ [](/\ pc \in {"locate", "rows", "checkEmpty", "firstPass", "secondPass", "sort"} =>
             settled = Pending
        /\ pc = "done" => \/ settled = Fulfilled /\ CompleteResult
                          \/ settled \in ReportErrors
        /\ pc = "idle" => ~(error # "" /\ groupedTrades # NoResult)
        /\ (pc = "idle" /\ error # "") => Rejected(error) \in ReportErrors)
  /\ [][settled # Pending => (settled' = settled \/ (pc = "idle" /\ settled' = Pending))]_vars

\* a rejection after an earlier report was displayed
C16_Witness ==
  /\ pc = "idle" /\ error = Malformed
  /\ lastProcessedContent # <<>> /\ groupedTrades = NoResult

\* the trade records of the rows from i on, seen telling that a header row
\* came before
RECURSIVE RecordsFrom(_, _, _)
RecordsFrom(table, i, seen) ==
  IF i > Len(table) THEN <<>>
  ELSE IF isHeaderRow(table[i]) THEN RecordsFrom(table, i + 1, TRUE)
  ELSE IF ~seen THEN RecordsFrom(table, i + 1, FALSE)
  ELSE IF isTerminatorRow(table[i]) THEN <<>>
  ELSE IF isTradeRow(table[i]) THEN <<makeTrade(table[i])>> \o RecordsFrom(table, i + 1, TRUE)
  ELSE RecordsFrom(table, i + 1, TRUE)

\* the results the sort can leave of buckets g, none when the comparator throws
SortedResults(trades, times, g) ==
  IF \E k \in DOMAIN g : groupThrows(times, g[k]) THEN {}
  ELSE {[grouped |-> h, allTrades |-> trades] : h \in sortedGrouped(times, g)}

GroupedResults(trades, st) ==
  SortedResults(trades, openTimes(trades), secondPass(st.grouped, st.winnersMap, trades, 1))

ClassifiedResults(trades, tol) ==
  IF trades = <<>> THEN {}
  ELSE GroupedResults(trades, firstPass([grouped |-> NoGroups, winnersMap |-> <<>>], trades, tol, 1))

TableResults(tables, t, tol) ==
  IF t = 0 THEN {} ELSE ClassifiedResults(RecordsFrom(tables[t], 1, FALSE), tol)

DocumentResults(tables, tol) == TableResults(tables, findClosedTransactionsTable(tables), tol)

\* the results processReport can resolve with for a content and a tolerance,
\* none when it rejects
Classification(content, tol) == DocumentResults(getTables(content, <<>>), tol)

\* the content of the file selected last
SelectedContent == (CHOOSE f \in Files : f.name = fileName).content

\* no handler is running and no load event is outstanding
Quiet == pc = "idle" /\ readers = {}

\* C17 as stated, for the states in which every file read has completed: a
\* displayed grouped result is a classification of the content of the file
\* selected last under the tolerance shown in the input.
C17_DisplayConsistent ==
  (Quiet /\ groupedTrades # NoResult) =>
    /\ fileName # ""
    /\ groupedTrades \in Classification(SelectedContent, appBeTolerance)

====
